---- MODULE Spec2Model ----
(***************************************************************************)
(* A model of src/input_preparation.py of PPF-FoldNet: the stages that     *)
(* turn one point-cloud fragment into point-pair-feature patches           *)
(* (rgbd_to_point_cloud, cal_local_normal, select_referenced_point,        *)
(* collect_local_neighbor, build_local_patch/_ppf), the two entry points   *)
(* that chain them (input_preprocess, get_local_patches_on_the_fly) and    *)
(* the __main__ scene loop.                                                *)
(*                                                                         *)
(* Coordinates are integers in units of 1/Scale, so a squared distance dd  *)
(* of the model is dd / Scale^2 in the program.  Indices are 1-based       *)
(* (Python's idx[1:] is Tail(idx)).  Values of the form num*sqrt(rad)/den  *)
(* are kept exactly as records [rad, num, den]; the argument pair of       *)
(* np.arctan2(x, y) is kept exactly as [xsq, y] with xsq = x^2.            *)
(***************************************************************************)
EXTENDS Integers, Sequences, FiniteSets

VARIABLES
    entry,                  \* the function the caller invoked
    pc,                     \* the stage about to run, or "done" / "raised"
    data,                   \* the data directory: file stem -> cloud or Missing
    local_id,               \* the fragment identifier the caller passed
    pcd,                    \* the source cloud [points, normals]
    normal_ok,              \* what cal_local_normal returned: "unset", "True", "False"
    num_patches,            \* parameter of select_referenced_point
    num_points_per_patch,   \* parameter of collect_local_neighbor
    random_state,           \* None, or the state of the RandomState passed in
    inds,                   \* the indices select_referenced_point drew
    ref_pcd,                \* the reference cloud [points, normals]
    neighbor,               \* the list collect_local_neighbor builds / returned
    qlog,                   \* history: one record per radius query made
    local_patch,            \* the tensor build_local_patch returned, or NoPatch
    store,                  \* the save directory: file name -> what was written
    calls,                  \* history: the entry-point calls that completed
    todo,                   \* __main__: directory entries not yet iterated
    main_pc                 \* __main__: "off", "loop", "done" or "crashed"

vars == <<entry, pc, data, local_id, pcd, normal_ok, num_patches,
          num_points_per_patch, random_state, inds, ref_pcd, neighbor, qlog,
          local_patch, store, calls, todo, main_pc>>

----------------------------------------------------------------------------
(* Bounds of the model. *)

MaxPoints == 3
MaxCoord == 2
MaxPatches == 2
MaxNpp == 2
MaxSeed == 1
MaxCount == 2
MaxCalls == 2
Scale == 5

(* vicinity=0.3, the default radius of collect_local_neighbor, as a fraction *)
VicinityNum == 3
VicinityDen == 10

(* the literal 0.3 that _ppf divides the distance by, as a fraction *)
PpfNormNum == 3
PpfNormDen == 10

None == "None"

(* random_state=None, and a RandomState in generator state s *)
Unseeded == [seeded |-> FALSE, state |-> 0]

Seeded(s) == [seeded |-> TRUE, state |-> s]

(* a file that is not there *)
Missing == [exists |-> FALSE]

(* no tensor was built *)
NoPatch == <<>>
BuiltinId == "<built-in function id>"

----------------------------------------------------------------------------
(* Vectors. *)

Range(s) == {s[j] : j \in 1..Len(s)}

Injective(s) == \A a, b \in 1..Len(s) : s[a] = s[b] => a = b

Sub(a, b) == <<a[1] - b[1], a[2] - b[2], a[3] - b[3]>>

Dot(a, b) == a[1] * b[1] + a[2] * b[2] + a[3] * b[3]

Cross(a, b) == <<a[2] * b[3] - a[3] * b[2],
                 a[3] * b[1] - a[1] * b[3],
                 a[1] * b[2] - a[2] * b[1]>>

NormSq(a) == Dot(a, a)

(* num*sqrt(rad)/den values: equality of the numbers two records denote *)
SqrtEq(a, b) == a.rad * a.num * a.num * b.den * b.den
                = b.rad * b.num * b.num * a.den * a.den

LinePositions == {<<x, 0, 0>> : x \in 0..MaxCoord}

PlanePositions == {<<x, y, 0>> : x \in 0..MaxCoord, y \in 0..1}

NormalSet == {<<0, 0, 1>>, <<1, 0, 0>>, <<0, 0, -1>>}

PlaneNormal == <<0, 0, 1>>

EmptyCloud == [points |-> <<>>, normals |-> <<>>]

----------------------------------------------------------------------------
(* numpy.random: choice(a, size, replace) *)

(* ValueError: an empty population with size > 0, or a sample without
   replacement larger than the population *)
ChoiceRaises(a, size, replace) ==
    \/ Len(a) = 0 /\ size > 0
    \/ ~replace /\ size > Len(a)

ChoiceOutcomesShort(a, size, replace) ==
    LET n == IF size < Len(a) THEN size ELSE Len(a)
    IN {s \in [1..n -> Range(a)] : replace \/ Injective(s)}

(* every result the process-global generator can give *)
ChoiceOutcomes(a, size, replace) ==
    {s \in [1..size -> Range(a)] : replace \/ Injective(s)}

(* A seeded RandomState: a deterministic generator.  The state is a small
   integer stepped by a linear congruence, standing for MT19937. *)
Lcg(s) == (5 * s + 3) % 16

RECURSIVE LcgN(_, _)
LcgN(s, n) == IF n = 0 THEN s ELSE LcgN(Lcg(s), n - 1)

RemoveAt(a, j) == [m \in 1..(Len(a) - 1) |-> IF m < j THEN a[m] ELSE a[m + 1]]

(* RandomState.permutation: a selection shuffle driven by the generator *)
RECURSIVE Permutation(_, _)
Permutation(a, s) ==
    IF Len(a) <= 1 THEN a
    ELSE LET j == (s % Len(a)) + 1
         IN <<a[j]>> \o Permutation(RemoveAt(a, j), Lcg(s))

(* RandomState.choice: randint draws with replacement, a prefix of a
   permutation without *)
SeededChoice(s, a, size, replace) ==
    IF replace
    THEN [m \in 1..size |-> a[(LcgN(s, m - 1) % Len(a)) + 1]]
    ELSE SubSeq(Permutation(a, s), 1, size)

SeededAdvance(s, a, size, replace) ==
    IF replace THEN LcgN(s, size) ELSE LcgN(s, Len(a))

----------------------------------------------------------------------------
(* open3d *)

(* KDTreeFlann.search_radius_vector_3d(point, radius): the indices of the
   points closer than radius, nearest first; the order among points at equal
   distance is the tree's and is not specified. *)
InRadius(points, point) ==
    {j \in 1..Len(points) :
        NormSq(Sub(points[j], point)) * VicinityDen * VicinityDen
            < VicinityNum * VicinityNum * Scale * Scale}

SearchRadiusVector3d(points, point) ==
    LET S == InRadius(points, point)
        dd(j) == NormSq(Sub(points[j], point))
    IN {s \in [1..Cardinality(S) -> S] :
            /\ Injective(s)
            /\ \A a, b \in 1..Cardinality(S) : a < b => dd(s[a]) <= dd(s[b])}

(* select_down_sample(pcd, inds): the points at inds, each with its normal
   when the cloud has normals *)
SelectDownSample(cloud, ix) ==
    [points  |-> [j \in 1..Len(ix) |-> cloud.points[ix[j]]],
     normals |-> IF Len(cloud.normals) = 0 THEN <<>>
                 ELSE [j \in 1..Len(ix) |-> cloud.normals[ix[j]]]]

----------------------------------------------------------------------------
(* _ppf and build_local_patch *)

(* np.arctan2(x, y) / np.pi with x a norm: the pair (x^2, y), kept exactly *)
Arctan2OverPi(xsq, y) == [xsq |-> xsq, y |-> y]

LenDRaw(d) == [rad |-> NormSq(d), num |-> 1, den |-> Scale]

(* len_d = np.sqrt(np.diag(np.dot(d, d.transpose()))) / 0.3 for one row d;
   sqrt(NormSq(d))/Scale is the norm in the program's units *)
LenD(d) == [rad |-> NormSq(d), num |-> PpfNormDen, den |-> Scale * PpfNormNum]

(* one row <<dim1_, dim2_, dim3_, len_d>> per neighbour *)
Ppf(point1, normal1, point2, normal2) ==
    [m \in 1..Len(point2) |->
        LET d == Sub(point1, point2[m])
        IN <<Arctan2OverPi(NormSq(Cross(normal1, d)), Dot(normal1, d)),
             Arctan2OverPi(NormSq(Cross(normal2[m], d)), Dot(normal2[m], d)),
             Arctan2OverPi(NormSq(Cross(normal1, normal2[m])),
                           Dot(normal1, normal2[m])),
             LenD(d)>>]

(* a row of np.zeros *)
ZeroFeature == <<Arctan2OverPi(0, 0), Arctan2OverPi(0, 0), Arctan2OverPi(0, 0),
                 [rad |-> 0, num |-> 1, den |-> 1]>>

(* np.asarray(a)[inds] *)
Gather(a, ix) == [m \in 1..Len(ix) |-> a[ix[m]]]

(* build_local_patch: zip stops at the shortest of its arguments, so a
   reference cloud without normals leaves the np.zeros tensor untouched *)
BuildLocalPatchOf(ref, cloud, nb) ==
    LET rows == Len(nb[1])
    IN [j \in 1..Len(ref.points) |->
            IF j <= Len(ref.normals) /\ j <= Len(nb)
            THEN Ppf(ref.points[j], ref.normals[j],
                     Gather(cloud.points, nb[j]), Gather(cloud.normals, nb[j]))
            ELSE [m \in 1..rows |-> ZeroFeature]]

AsFloat32(patch) == [dtype |-> "float32", values |-> patch]

----------------------------------------------------------------------------
(* Control flow of the callers. *)

PipelineEntries == {"input_preprocess", "get_local_patches_on_the_fly"}

(* the stage that follows `stage` in the function the caller invoked *)
Follow(e, stage) ==
    CASE stage = "load"    -> "normal"
      [] stage = "normal"  -> "select"
      [] stage = "select"  -> IF e = "select_referenced_point" THEN "done"
                              ELSE "collect"
      [] stage = "collect" -> "build"
      [] stage = "build"   -> IF e = "input_preprocess" THEN "save" ELSE "done"
      [] stage = "save"    -> "done"

(* nothing in input_preparation.py catches an exception: one raised inside a
   call made by __main__ ends the scene loop *)
Goto(next) ==
    /\ pc' = next
    /\ main_pc' = IF next = "raised" /\ main_pc = "loop" THEN "crashed"
                  ELSE main_pc

(* the call returned: remember it *)
Returned(e, patch) ==
    calls' = IF e \in PipelineEntries
             THEN Append(calls, [entry |-> e, local_id |-> local_id,
                                 local_patch |-> patch])
             ELSE calls

----------------------------------------------------------------------------
(* The stages. *)

(* rgbd_to_point_cloud: data[ind] is the fragment's cloud after the voxel
   down-sampling and the pose transform; np.load raises when the fragment's
   files are not there *)
RgbdToPointCloud ==
    /\ pc = "load"
    /\ IF ~data[local_id].exists
       THEN /\ Goto("raised")
            /\ UNCHANGED pcd
       ELSE /\ Goto(Follow(entry, "load"))
            /\ pcd' = [points |-> data[local_id].points, normals |-> <<>>]
    /\ UNCHANGED <<entry, data, local_id, normal_ok, num_patches,
                   num_points_per_patch, random_state, inds, ref_pcd, neighbor,
                   qlog, local_patch, store, calls, todo>>

(* estimate_normals: one normal per point on success *)
EstimateNormals(cloud) ==
    [points |-> cloud.points,
     normals |-> [j \in 1..Len(cloud.points) |-> PlaneNormal]]

(* input_preprocess and get_local_patches_on_the_fly call cal_local_normal
   as a statement: whatever it returns, the next line runs *)
CallerProceeds(ok) == TRUE

(* cal_local_normal, and the caller's use of its result *)
CalLocalNormal ==
    /\ pc = "normal"
    /\ LET ok == data[local_id].estimable
       IN /\ normal_ok' = IF ok THEN "True" ELSE "False"
          /\ pcd' = IF ok THEN EstimateNormals(pcd) ELSE pcd
          /\ Goto(IF CallerProceeds(ok) THEN Follow(entry, "normal") ELSE "raised")
    /\ UNCHANGED <<entry, data, local_id, num_patches, num_points_per_patch,
                   random_state, inds, ref_pcd, neighbor, qlog, local_patch,
                   store, calls, todo>>

ReferenceIndicesWithReplacement(n, k) ==
    ChoiceOutcomes([j \in 1..n |-> j], k, TRUE)

(* np.random.choice(range(num_points), num_patches, replace=False) *)
ReferenceIndices(n, k) == ChoiceOutcomes([j \in 1..n |-> j], k, FALSE)

(* select_referenced_point *)
SelectReferencedPoint ==
    /\ pc = "select"
    /\ LET num_points == Len(pcd.points)
       IN IF ChoiceRaises([j \in 1..num_points |-> j], num_patches, FALSE)
          THEN /\ Goto("raised")
               /\ UNCHANGED <<inds, ref_pcd, calls>>
          ELSE \E s \in ReferenceIndices(num_points, num_patches) :
                  /\ inds' = s
                  /\ ref_pcd' = SelectDownSample(pcd, s)
                  /\ Goto(Follow(entry, "select"))
                  /\ IF Follow(entry, "select") = "done"
                     THEN Returned(entry, NoPatch) ELSE UNCHANGED calls
    /\ UNCHANGED <<entry, data, local_id, pcd, normal_ok, num_patches,
                   num_points_per_patch, random_state, neighbor, qlog,
                   local_patch, store, todo>>

CandidatesKeepAll(idx) == idx

(* idx[1:] *)
Candidates(idx) == IF Len(idx) = 0 THEN idx ELSE Tail(idx)

WithReplacementOnCandidates(k, n) == ~(k - 1 > n)

(* replace=False is passed when k > num_points_per_patch, with k the number
   of indices the radius query returned *)
WithReplacement(k, n) == ~(k > n)

(* collect_local_neighbor: one pass of the loop over ref_pcd.points, and the
   return after the last *)
CollectLocalNeighbor ==
    /\ pc = "collect"
    /\ Len(neighbor) < Len(ref_pcd.points)
    /\ LET i == Len(neighbor) + 1
           point == ref_pcd.points[i]
       IN \E idx \in SearchRadiusVector3d(pcd.points, point) :
            LET k == Len(idx)
                a == Candidates(idx)
                replace == WithReplacement(k, num_points_per_patch)
                rec == [ref |-> inds[i], k |-> k, replace |-> replace,
                        only_self |-> (idx = <<inds[i]>>)]
            IN /\ qlog' = Append(qlog, rec)
               /\ IF ChoiceRaises(a, num_points_per_patch, replace)
                  THEN /\ Goto("raised")
                       /\ neighbor' = <<>>
                       /\ UNCHANGED <<random_state, calls>>
                  ELSE /\ \E drawn \in
                              (IF ~random_state.seeded
                               THEN ChoiceOutcomes(a, num_points_per_patch, replace)
                               ELSE {SeededChoice(random_state.state, a,
                                                  num_points_per_patch, replace)}) :
                              neighbor' = Append(neighbor, drawn)
                       /\ random_state' =
                              IF ~random_state.seeded THEN random_state
                              ELSE Seeded(SeededAdvance(random_state.state, a,
                                              num_points_per_patch, replace))
                       /\ IF i = Len(ref_pcd.points)
                          THEN /\ Goto(Follow(entry, "collect"))
                               /\ IF Follow(entry, "collect") = "done"
                                  THEN Returned(entry, NoPatch)
                                  ELSE UNCHANGED calls
                          ELSE /\ Goto("collect")
                               /\ UNCHANGED calls
    /\ UNCHANGED <<entry, data, local_id, pcd, normal_ok, num_patches,
                   num_points_per_patch, inds, ref_pcd, local_patch, store,
                   todo>>

(* build_local_patch *)
BuildLocalPatch ==
    /\ pc = "build"
    /\ local_patch' = BuildLocalPatchOf(ref_pcd, pcd, neighbor)
    /\ Goto(Follow(entry, "build"))
    /\ IF Follow(entry, "build") = "done"
       THEN Returned(entry, local_patch') ELSE UNCHANGED calls
    /\ UNCHANGED <<entry, data, local_id, pcd, normal_ok, num_patches,
                   num_points_per_patch, random_state, inds, ref_pcd, neighbor,
                   qlog, store, todo>>

(* the stem of f'{save_dir}/{id}.npy' and f"{save_dir}/{id}.pcd": id is the
   Python builtin, input_preprocess has no variable of that name *)
SaveStem(fragment) == BuiltinId

(* the tail of input_preprocess: np.save and write_point_cloud *)
SavePatch ==
    /\ pc = "save"
    /\ store' = [store EXCEPT ![SaveStem(local_id)] =
                    [exists |-> TRUE, npy |-> AsFloat32(local_patch),
                     pcd |-> ref_pcd]]
    /\ Goto(Follow(entry, "save"))
    /\ Returned(entry, local_patch)
    /\ UNCHANGED <<entry, data, local_id, pcd, normal_ok, num_patches,
                   num_points_per_patch, random_state, inds, ref_pcd, neighbor,
                   qlog, local_patch, todo>>

----------------------------------------------------------------------------
(* The callers. *)

FragmentIds == {"f1", "f2"}

Stems == FragmentIds \cup {BuiltinId}

Before(p, q) == p[1] < q[1] \/ (p[1] = q[1] /\ p[2] < q[2])

(* clouds of a data directory: up to MaxPoints points of a plane, no two at
   the same place (voxel_down_sample leaves one point per voxel), listed in
   one order; the empty cloud is what a .ply that cannot be read gives *)
FragmentPoints ==
    UNION {{s \in [1..n -> PlanePositions] :
                \A a, b \in 1..n : a < b => Before(s[a], s[b])} : n \in 0..MaxPoints}

FragmentFiles == [exists : {TRUE}, points : FragmentPoints, estimable : BOOLEAN]

(* a caller invokes input_preprocess or get_local_patches_on_the_fly on a
   fragment of the directory, with the scaled-down default sizes *)
CallEntry ==
    /\ main_pc = "off"
    /\ pc \in {"idle", "done", "raised"}
    /\ Len(calls) < MaxCalls
    /\ \E e \in PipelineEntries, f \in FragmentIds :
          /\ entry' = e
          /\ local_id' = f
    /\ pc' = "load"
    /\ pcd' = EmptyCloud
    /\ normal_ok' = "unset"
    /\ inds' = <<>>
    /\ ref_pcd' = EmptyCloud
    /\ neighbor' = <<>>
    /\ qlog' = <<>>
    /\ local_patch' = NoPatch
    /\ UNCHANGED <<data, num_patches, num_points_per_patch, random_state,
                   store, calls, todo, main_pc>>

(* os.listdir(data_directory): the two files of every fragment there *)
ListDir(d) == {[stem |-> st, ext |-> x] :
                   st \in {t \in DOMAIN d : d[t].exists},
                   x \in {"ply", "pose.npy"}}

(* __main__: one pass of `for filename in os.listdir(data_directory)`.
   fragment_id is computed and not used: the call is given the builtin id *)
MainIteration ==
    /\ main_pc = "loop"
    /\ pc \in {"idle", "done"}
    /\ todo # {}
    /\ \E filename \in todo :
          LET fragment_id == filename.stem
          IN /\ todo' = todo \ {filename}
             /\ local_id' = BuiltinId
    /\ entry' = "get_local_patches_on_the_fly"
    /\ pc' = "load"
    /\ pcd' = EmptyCloud
    /\ normal_ok' = "unset"
    /\ inds' = <<>>
    /\ ref_pcd' = EmptyCloud
    /\ neighbor' = <<>>
    /\ qlog' = <<>>
    /\ local_patch' = NoPatch
    /\ UNCHANGED <<data, num_patches, num_points_per_patch, random_state,
                   store, calls, main_pc>>

(* __main__: the listing is exhausted; print and break *)
MainFinish ==
    /\ main_pc = "loop"
    /\ pc \in {"idle", "done"}
    /\ todo = {}
    /\ main_pc' = "done"
    /\ UNCHANGED <<entry, pc, data, local_id, pcd, normal_ok, num_patches,
                   num_points_per_patch, random_state, inds, ref_pcd, neighbor,
                   qlog, local_patch, store, calls, todo>>

----------------------------------------------------------------------------
(* Specifications. *)

Idle ==
    /\ pc = "idle"
    /\ entry = None
    /\ local_id = None
    /\ pcd = EmptyCloud
    /\ normal_ok = "unset"
    /\ inds = <<>>
    /\ ref_pcd = EmptyCloud
    /\ neighbor = <<>>
    /\ qlog = <<>>
    /\ local_patch = NoPatch
    /\ calls = <<>>

EmptyStore == [st \in Stems |-> Missing]

(* a fragment whose content is not what is looked at *)
SomeFragment ==
    [exists |-> TRUE, points |-> <<<<0, 0, 0>>, <<1, 0, 0>>>>, estimable |-> TRUE]

(* input_preprocess and get_local_patches_on_the_fly, called up to MaxCalls
   times on the fragments of one data directory, saving into one directory:
   fragment f1 holds any cloud, f2 is there or not *)
Init ==
    /\ Idle
    /\ data \in {d \in [Stems -> FragmentFiles \cup {Missing}] :
                    /\ ~d[BuiltinId].exists
                    /\ d["f2"] \in {Missing, SomeFragment}}
    /\ num_patches = MaxPatches
    /\ num_points_per_patch = MaxNpp
    /\ random_state = Unseeded
    /\ store = EmptyStore
    /\ todo = {}
    /\ main_pc = "off"

Next ==
    \/ CallEntry
    \/ RgbdToPointCloud
    \/ CalLocalNormal
    \/ SelectReferencedPoint
    \/ CollectLocalNeighbor
    \/ BuildLocalPatch
    \/ SavePatch

Spec == Init /\ [][Next]_vars

(* the __main__ loop over one scene directory; what a fragment's files hold
   does not reach __main__'s calls, which load the stem BuiltinId *)
InitMain ==
    /\ Idle
    /\ data \in {d \in [Stems -> FragmentFiles \cup {Missing}] :
                    /\ \A f \in FragmentIds : d[f] \in {Missing, SomeFragment}
                    /\ d[BuiltinId].exists =>
                           Len(d[BuiltinId].points) < MaxPoints}
    /\ num_patches = MaxPatches
    /\ num_points_per_patch = MaxNpp
    /\ random_state = Unseeded
    /\ store = EmptyStore
    /\ todo = ListDir(data)
    /\ main_pc = "loop"

NextMain ==
    \/ MainIteration
    \/ MainFinish
    \/ RgbdToPointCloud
    \/ CalLocalNormal
    \/ SelectReferencedPoint
    \/ CollectLocalNeighbor
    \/ BuildLocalPatch

SpecMain == InitMain /\ [][NextMain]_vars

NoData == [st \in Stems |-> Missing]

(* a cloud with normals in memory: every sequence of up to MaxPoints points *)
CloudsOn(positions, normals) ==
    UNION {[points : [1..n -> positions], normals : [1..n -> normals]] :
               n \in 1..MaxPoints}

(* select_referenced_point, collect_local_neighbor and build_local_patch
   chained as the entry points chain them, on a cloud in memory, with and
   without a RandomState given to collect_local_neighbor.  The clouds are the
   points of a line, coincident points included, numbered along the line:
   the three functions read an index only to look its point up, so another
   numbering of the same points gives the same runs renumbered.  One or two
   reference points are drawn: a pass of the loop leaves the next nothing but
   the list and the RandomState. *)
CollectPatchCounts == {1, 2}

InitCollect ==
    /\ entry = "build_local_patch"
    /\ pc = "select"
    /\ data = NoData
    /\ local_id = None
    /\ pcd \in {c \in CloudsOn(LinePositions, {PlaneNormal}) :
                   \A a, b \in 1..Len(c.points) :
                       a < b => c.points[a][1] <= c.points[b][1]}
    /\ normal_ok = "True"
    /\ num_patches \in CollectPatchCounts
    /\ num_points_per_patch \in 1..MaxNpp
    /\ random_state \in {Unseeded} \cup {Seeded(s) : s \in 0..MaxSeed}
    /\ inds = <<>>
    /\ ref_pcd = EmptyCloud
    /\ neighbor = <<>>
    /\ qlog = <<>>
    /\ local_patch = NoPatch
    /\ store = EmptyStore
    /\ calls = <<>>
    /\ todo = {}
    /\ main_pc = "off"

NextCollect ==
    \/ SelectReferencedPoint
    \/ CollectLocalNeighbor
    \/ BuildLocalPatch

SpecCollect == InitCollect /\ [][NextCollect]_vars

(* select_referenced_point alone, on clouds whose normals differ *)
InitSelect ==
    /\ entry = "select_referenced_point"
    /\ pc = "select"
    /\ data = NoData
    /\ local_id = None
    /\ pcd \in CloudsOn(LinePositions, NormalSet)
    /\ normal_ok = "True"
    /\ num_patches \in 1..MaxPatches
    /\ num_points_per_patch = MaxNpp
    /\ random_state = Unseeded
    /\ inds = <<>>
    /\ ref_pcd = EmptyCloud
    /\ neighbor = <<>>
    /\ qlog = <<>>
    /\ local_patch = NoPatch
    /\ store = EmptyStore
    /\ calls = <<>>
    /\ todo = {}
    /\ main_pc = "off"

NextSelect == SelectReferencedPoint

SpecSelect == InitSelect /\ [][NextSelect]_vars

(* build_local_patch on one reference point and up to MaxCount neighbours *)
InitPpf ==
    /\ entry = "build_local_patch"
    /\ pc = "build"
    /\ data = NoData
    /\ local_id = None
    /\ \E n \in 1..MaxCount :
          /\ pcd \in [points : [1..n -> PlanePositions],
                      normals : [1..n -> NormalSet]]
          /\ neighbor = <<[m \in 1..n |-> m]>>
          /\ num_points_per_patch = n
    /\ normal_ok = "True"
    /\ num_patches = 1
    /\ random_state = Unseeded
    /\ inds = <<>>
    /\ ref_pcd \in [points : [1..1 -> PlanePositions],
                    normals : [1..1 -> NormalSet]]
    /\ qlog = <<>>
    /\ local_patch = NoPatch
    /\ store = EmptyStore
    /\ calls = <<>>
    /\ todo = {}
    /\ main_pc = "off"

NextPpf == BuildLocalPatch

SpecPpf == InitPpf /\ [][NextPpf]_vars

----------------------------------------------------------------------------
(* Claims. *)

HasCandidate(q) == q.k - 1 >= 1

(* C1: every reference point queried with at least one candidate left after
   idx[1:] gets a list of exactly num_points_per_patch indices, all of them
   radius-neighbours of that reference point, whatever the candidate count;
   the list returned has one entry per reference point, in their order. *)
C1_ExactlyNppPerReference ==
    /\ Len(neighbor) <= Len(ref_pcd.points)
    /\ \A j \in 1..Len(qlog) :
          HasCandidate(qlog[j]) =>
              \/ pc = "raised"
              \/ /\ j <= Len(neighbor)
                 /\ Len(neighbor[j]) = num_points_per_patch
                 /\ Range(neighbor[j]) \subseteq
                        InRadius(pcd.points, ref_pcd.points[j])
    /\ pc \in {"build", "done"} => Len(neighbor) = Len(ref_pcd.points)

(* both branches in one call: fewer candidates than the patch size for the
   first reference point, at least as many for the second *)
C1_Witness ==
    /\ pc = "done"
    /\ Len(neighbor) = 2
    /\ qlog[1].k - 1 < num_points_per_patch
    /\ qlog[2].k - 1 >= num_points_per_patch
    /\ num_points_per_patch = 2

(* C2: no list returned for a reference point holds that point's own index
   in the source cloud. *)
C2_NoSelfIndex ==
    \A j \in 1..Len(neighbor) : inds[j] \notin Range(neighbor[j])

OnlySelf(q) == q.only_self

(* C3: once a reference point's radius query returns that point alone, the
   call has raised: no neighbour list is returned and no patch is built,
   with a RandomState and without. *)
C3_OnlySelfRaises ==
    \A j \in 1..Len(qlog) :
        OnlySelf(qlog[j]) =>
            /\ pc = "raised"
            /\ neighbor = <<>>
            /\ local_patch = NoPatch

C3_Witness ==
    /\ pc = "raised"
    /\ random_state.seeded
    /\ Len(qlog) = 2
    /\ OnlySelf(qlog[2])

(* C4: for K <= N select_referenced_point returns K points at K pairwise
   distinct source indices, each with the normal of the same index. *)
C4_DistinctPairedReferences ==
    num_patches <= Len(pcd.points) =>
        /\ pc # "raised"
        /\ pc = "done" =>
              /\ Len(inds) = num_patches
              /\ Injective(inds)
              /\ Range(inds) \subseteq 1..Len(pcd.points)
              /\ Len(ref_pcd.points) = num_patches
              /\ Len(ref_pcd.normals) = num_patches
              /\ \A j \in 1..num_patches :
                    /\ ref_pcd.points[j] = pcd.points[inds[j]]
                    /\ ref_pcd.normals[j] = pcd.normals[inds[j]]

C4_Witness ==
    /\ pc = "done"
    /\ num_patches = 2
    /\ Len(pcd.points) = 3
    /\ ref_pcd.normals[1] # ref_pcd.normals[2]
    /\ inds[1] > inds[2]

(* C5: once cal_local_normal has returned False, nothing of the later stages
   has run: no reference drawn, no neighbour collected, no patch built. *)
C5_NothingAfterNormalFailure ==
    normal_ok = "False" =>
        /\ inds = <<>>
        /\ neighbor = <<>>
        /\ local_patch = NoPatch

(* C6: when the scene loop has ended, every entry of the directory listing
   has had its pass of the loop. *)
C6_EveryFragmentAttempted ==
    main_pc \in {"done", "crashed"} => todo = {}

(* C7: after any calls of input_preprocess, the save directory holds, under
   each processed fragment's identifier, the patch computed for it. *)
C7_OutputKeyedByFragment ==
    \A c \in 1..Len(calls) :
        calls[c].entry = "input_preprocess" =>
            /\ store[calls[c].local_id].exists
            /\ store[calls[c].local_id].npy = AsFloat32(calls[c].local_patch)

EuclideanDistance(p, q) == [rad |-> NormSq(Sub(p, q)), num |-> 1, den |-> Scale]

Times(v, n, d) == [rad |-> v.rad, num |-> v.num * n, den |-> v.den * d]

(* C9 as stated: the fourth component of every row is the Euclidean distance
   between the reference point and the neighbour. *)
C9_DistanceIsEuclidean ==
    pc = "done" =>
        \A j \in 1..Len(local_patch) : \A m \in 1..Len(local_patch[j]) :
            SqrtEq(local_patch[j][m][4],
                   EuclideanDistance(ref_pcd.points[j], pcd.points[neighbor[j][m]]))

(* C9 amended: the fourth component of every row, times 0.3, is the Euclidean
   distance between the reference point and the neighbour. *)
C9_DistanceOverVicinity ==
    pc = "done" =>
        \A j \in 1..Len(local_patch) : \A m \in 1..Len(local_patch[j]) :
            SqrtEq(Times(local_patch[j][m][4], 3, 10),
                   EuclideanDistance(ref_pcd.points[j], pcd.points[neighbor[j][m]]))

C9_Witness ==
    /\ pc = "done"
    /\ Len(local_patch[1]) = 2
    /\ ref_pcd.points[1] # pcd.points[1]
    /\ NormSq(Sub(ref_pcd.points[1], pcd.points[2])) = 2

(* C10 as stated: a draw is with replacement exactly when the candidate count
   after idx[1:] is at most num_points_per_patch, and a draw without
   replacement gives pairwise distinct indices. *)
C10_ReplacementOnCandidateCount ==
    \A j \in 1..Len(qlog) :
        /\ qlog[j].replace = (qlog[j].k - 1 <= num_points_per_patch)
        /\ (~qlog[j].replace /\ j <= Len(neighbor)) => Injective(neighbor[j])

(* C10 amended: a draw is with replacement exactly when the candidate count
   after idx[1:] is below num_points_per_patch; at a count equal to it or
   above, the draw is without replacement and gives pairwise distinct
   indices. *)
C10_ReplacementOnQueryCount ==
    \A j \in 1..Len(qlog) :
        /\ qlog[j].replace = (qlog[j].k - 1 < num_points_per_patch)
        /\ (~qlog[j].replace /\ j <= Len(neighbor)) => Injective(neighbor[j])

(* the boundary: as many candidates as the patch size *)
C10_Witness ==
    /\ pc = "done"
    /\ qlog[1].k - 1 = num_points_per_patch
    /\ ~qlog[1].replace
    /\ Injective(neighbor[1])
    /\ num_points_per_patch = 2

====
